---- MODULE Spec2Model ----
(***************************************************************************)
(* Model of src/probability/heredity/heredity.py: exact inference by       *)
(* enumeration over gene-copy and trait assignments of a population.       *)
(*                                                                         *)
(* Numbers.  The program computes with floats; the model computes the same *)
(* products and sums exactly, in fixed point.  Every entry of PROBS is a   *)
(* multiple of 1/100, so a probability table entry is held in hundredths,  *)
(* a person's hidden factor in ten-thousandths and the joint probability   *)
(* of a population of n people in units of 10^-(6n).  The values exceed    *)
(* the range of TLC's integers, so they are held as fixed-length           *)
(* little-endian sequences of limbs in base 10^4.  Floating-point rounding *)
(* is outside the model.                                                   *)
(***************************************************************************)
EXTENDS Integers, Sequences, FiniteSets, Bags, TLC

\* The largest number of rows of a population file.
MaxPeople == 3
\* The largest weight of an accumulator entry handed to a direct call.
MaxWeight == 2
\* The largest population without parents handed to a direct call.
UnitPeople == 2

---------------------------------------------------------------------------
\* The state of a run of main

VARIABLES
    file,           \* the rows of the file named on the command line
    set_order,      \* the order in which this run of the interpreter iterates
                    \* over a set of names (it varies with the hash seed)
    people,         \* load_data's result
    probabilities,  \* the accumulator
    names,
    ht_list, i, have_trait,     \* for have_trait in powerset(names)
    og_list, j, one_gene,       \* for one_gene in powerset(names)
    tg_list, k, two_genes,      \* for two_genes in powerset(names - one_gene)
    p,              \* the last joint probability
    pc,             \* the statement main is at
    error,          \* the exception that ended the run, "none" if none
    calls,          \* history: the bag of <<one_gene, two_genes, have_trait>>
                    \* joint_probability and update were called with
    total,          \* history: the sum of every p computed
    normalized      \* history: the number of calls of normalize

\* The state of a run of src/search/degrees.py (pc and error are shared)
VARIABLES
    csv,            \* the rows of people.csv, movies.csv and stars.csv
    people_db,      \* people: person id -> the ids of the person's movies
    movies_db,      \* movies: movie id -> the ids of the movie's stars
    source, target, \* the arguments of shortest_path
    fifo,           \* the deque of <<person id, movie id, parent id>>
    fifo_set,       \* the ids ever pushed
    visited,        \* person id -> <<movie id, parent id>>
    curr_id,        \* the person popped last
    neighbors,      \* what "for movie_id, star_id in neighbors" has yet to visit
    result          \* the list returned

search == <<csv, people_db, movies_db, source, target, fifo, fifo_set, visited,
            curr_id, neighbors, result>>

heredity == <<file, set_order, people, probabilities, names, ht_list, i,
              have_trait, og_list, j, one_gene, tg_list, k, two_genes, p,
              calls, total, normalized>>

vars == <<file, set_order, people, probabilities, names, ht_list, i, have_trait,
          og_list, j, one_gene, tg_list, k, two_genes, p, pc, error,
          calls, total, normalized, search>>

loops == <<ht_list, i, have_trait, og_list, j, one_gene, tg_list, k, two_genes>>
history == <<calls, total, normalized>>

---------------------------------------------------------------------------
\* Exact arithmetic

Base == 100 * 100
\* the largest population of any run or call
MostPeople == IF MaxPeople > UnitPeople + 1 THEN MaxPeople ELSE UnitPeople + 1
\* a joint probability of n people has at most 6n + 1 digits
NumLimbs == (6 * MostPeople) \div 4 + 1

BigOf(n) ==
    <<n % Base, (n \div Base) % Base>> \o [l \in 1..(NumLimbs - 2) |-> 0]
Zero == BigOf(0)

RECURSIVE AddFrom(_, _, _, _)
AddFrom(a, b, l, carry) ==
    IF l > NumLimbs THEN <<>>
    ELSE <<(a[l] + b[l] + carry) % Base>>
         \o AddFrom(a, b, l + 1, (a[l] + b[l] + carry) \div Base)

BigAdd(a, b) == AddFrom(a, b, 1, 0)

RECURSIVE MulFrom(_, _, _, _)
MulFrom(a, n, l, carry) ==
    IF l > NumLimbs THEN <<>>
    ELSE <<(a[l] * n + carry) % Base>>
         \o MulFrom(a, n, l + 1, (a[l] * n + carry) \div Base)

\* a * n for 0 <= n <= Base
BigMul(a, n) == MulFrom(a, n, 1, 0)

RECURSIVE BigSum(_)
BigSum(s) == IF s = <<>> THEN Zero ELSE BigAdd(Head(s), BigSum(Tail(s)))

\* 10^(6n): the unit (probability 1) of a joint probability over n people
RECURSIVE Unit(_)
Unit(n) == IF n = 0 THEN BigOf(1) ELSE BigMul(BigMul(Unit(n - 1), 100), Base)

---------------------------------------------------------------------------
\* Names

NameSeq == <<"A", "B", "C", "D", "E", "F">>
AllNames == {NameSeq[x] : x \in 1..Len(NameSeq)}
\* an id that no row of a population file is named by
Stranger == "Z"
None == "None"

Index(name) == IF name \in AllNames
               THEN CHOOSE x \in 1..Len(NameSeq) : NameSeq[x] = name
               ELSE Len(NameSeq) + 1

\* the names of s in the order of NameSeq: the keys of a dict filled in file
\* order
RECURSIVE ListOf(_)
ListOf(s) ==
    IF s = {} THEN <<>>
    ELSE LET first == CHOOSE x \in s : \A y \in s : Index(x) <= Index(y)
         IN  <<first>> \o ListOf(s \ {first})

RECURSIVE Reversed(_)
Reversed(s) == IF s = <<>> THEN <<>> ELSE Reversed(Tail(s)) \o <<Head(s)>>

\* list(s) of a set s: the language fixes no order; a run takes the names
\* in ascending or in descending order
SetOrders == {"ascending", "descending"}
list(s) == IF set_order = "ascending" THEN ListOf(s) ELSE Reversed(ListOf(s))

---------------------------------------------------------------------------
\* The tables, in hundredths

PROBS ==
    [gene     |-> (2 :> 1 @@ 1 :> 3 @@ 0 :> 96),
     trait    |-> (2 :> (TRUE :> 65 @@ FALSE :> 35) @@
                   1 :> (TRUE :> 56 @@ FALSE :> 44) @@
                   0 :> (TRUE :> 1  @@ FALSE :> 99)),
     mutation |-> 1]

---------------------------------------------------------------------------
\* load_data: a file is a sequence of rows [name, mother, father, trait] of
\* strings, "" for a blank field.  A later row of the same name replaces
\* an earlier one.

load_data(rows) ==
    LET keys == {rows[x].name : x \in 1..Len(rows)}
        RowOf(n) == rows[CHOOSE x \in 1..Len(rows) :
                            /\ rows[x].name = n
                            /\ \A y \in 1..Len(rows) : rows[y].name = n => y <= x]
    IN  [n \in keys |->
            [name   |-> n,
             mother |-> IF RowOf(n).mother = "" THEN None ELSE RowOf(n).mother,
             father |-> IF RowOf(n).father = "" THEN None ELSE RowOf(n).father,
             trait  |-> IF RowOf(n).trait = "1" THEN "True"
                        ELSE IF RowOf(n).trait = "0" THEN "False" ELSE None]]

\* the accumulator main creates
ZeroProbabilities(population) ==
    [person \in DOMAIN population |->
        [gene  |-> (2 :> Zero @@ 1 :> Zero @@ 0 :> Zero),
         trait |-> (TRUE :> Zero @@ FALSE :> Zero)]]

---------------------------------------------------------------------------
\* powerset: itertools.combinations(s, r) for r = 0..len(s), chained

RECURSIVE combinations(_, _)
combinations(s, r) ==
    IF r = 0 THEN <<{}>>
    ELSE IF Len(s) < r THEN <<>>
    ELSE LET with == combinations(Tail(s), r - 1)
         IN  [x \in 1..Len(with) |-> with[x] \cup {Head(s)}]
             \o combinations(Tail(s), r)

RECURSIVE chain(_, _)
chain(s, r) ==
    IF r > Len(s) THEN <<>> ELSE combinations(s, r) \o chain(s, r + 1)

\* range(1, len(s) + 1): the empty subset is left out
powerset_from_one(s) == chain(list(s), 1)

powerset(s) == chain(list(s), 0)

---------------------------------------------------------------------------
\* The evaluator

get_genes_count(name, one, two) ==
    IF name \in one THEN 1
    ELSE IF name \in two THEN 2 ELSE 0

\* the mutation applied the wrong way round
get_pass_prob_swapped(count) ==
    IF count = 2 THEN PROBS.mutation
    ELSE IF count = 1 THEN 50
    ELSE 100 - PROBS.mutation

\* in hundredths
get_pass_prob(count) ==
    IF count = 2 THEN 100 - PROBS.mutation
    ELSE IF count = 1 THEN 50
    ELSE PROBS.mutation

\* one copy counted as "mother passes and father does not" only
child_genes_probs_one_way(m_pass_prob, f_pass_prob) ==
    (2 :> m_pass_prob * f_pass_prob @@
     1 :> m_pass_prob * (100 - f_pass_prob) @@
     0 :> (100 - f_pass_prob) * (100 - m_pass_prob))

\* in ten-thousandths
child_genes_probs(m_pass_prob, f_pass_prob) ==
    (2 :> m_pass_prob * f_pass_prob @@
     1 :> (m_pass_prob * (100 - f_pass_prob))
          + (f_pass_prob * (100 - m_pass_prob)) @@
     0 :> (100 - f_pass_prob) * (100 - m_pass_prob))

\* the factor one person multiplies into p: <<hidden, emission>>, the hidden
\* factor in ten-thousandths and the emission factor in hundredths
person_factors(person, one, two, trait_set) ==
    LET genes_query == get_genes_count(person.name, one, two)
        trait_query == person.name \in trait_set
        is_parents_data_available == person.mother # None
        m_genes == get_genes_count(person.mother, one, two)
        f_genes == get_genes_count(person.father, one, two)
    IN  << IF is_parents_data_available
           THEN child_genes_probs(get_pass_prob(m_genes),
                                  get_pass_prob(f_genes))[genes_query]
           ELSE PROBS.gene[genes_query] * 100,
           PROBS.trait[genes_query][trait_query] >>

RECURSIVE joint_loop(_, _, _, _, _)
joint_loop(values, one, two, trait_set, acc) ==
    IF values = <<>> THEN acc
    ELSE LET f == person_factors(Head(values), one, two, trait_set)
         IN  joint_loop(Tail(values), one, two, trait_set,
                        BigMul(BigMul(acc, f[1]), f[2]))

joint_probability(population, one, two, trait_set) ==
    LET keys == ListOf(DOMAIN population)
    IN  joint_loop([x \in 1..Len(keys) |-> population[keys[x]]],
                   one, two, trait_set, BigOf(1))

---------------------------------------------------------------------------
\* The accumulator

\* p added to both trait entries
update_both_traits(probs, one, two, trait_set, q) ==
    [name \in DOMAIN probs |->
        LET genes == get_genes_count(name, one, two)
        IN  [gene  |-> [probs[name].gene EXCEPT ![genes] = BigAdd(@, q)],
             trait |-> [t \in BOOLEAN |-> BigAdd(probs[name].trait[t], q)]]]

\* the trait distribution left out
update_genes_only(probs, one, two, trait_set, q) ==
    [name \in DOMAIN probs |->
        LET genes == get_genes_count(name, one, two)
        IN  [gene  |-> [probs[name].gene EXCEPT ![genes] = BigAdd(@, q)],
             trait |-> probs[name].trait]]

\* the trait entry chosen the wrong way round
update_trait_negated(probs, one, two, trait_set, q) ==
    [name \in DOMAIN probs |->
        LET genes == get_genes_count(name, one, two)
            trait == name \notin trait_set
        IN  [gene  |-> [probs[name].gene EXCEPT ![genes] = BigAdd(@, q)],
             trait |-> [probs[name].trait EXCEPT ![trait] = BigAdd(@, q)]]]

update(probs, one, two, trait_set, q) ==
    [name \in DOMAIN probs |->
        LET genes == get_genes_count(name, one, two)
            trait == name \in trait_set
        IN  [gene  |-> [probs[name].gene EXCEPT ![genes] = BigAdd(@, q)],
             trait |-> [probs[name].trait EXCEPT ![trait] = BigAdd(@, q)]]]

\* w / s, exactly
Div(w, s) == [num |-> w, den |-> s]

\* sum(probabilities[name]['gene'].values())
genes_sum(probs, name) ==
    BigSum(<<probs[name].gene[2], probs[name].gene[1], probs[name].gene[0]>>)

\* the trait weights divided by the sum of the gene weights
trait_sum_of_genes(probs, name) ==
    BigSum(<<probs[name].gene[2], probs[name].gene[1], probs[name].gene[0]>>)

\* sum(probabilities[name]['trait'].values())
trait_sum(probs, name) ==
    BigSum(<<probs[name].trait[TRUE], probs[name].trait[FALSE]>>)

\* normalize: [probabilities, error], the accumulator as the loop leaves it
\* and the exception that ended it ("none" when it returned).  A division
\* by an int or float zero raises ZeroDivisionError.
RECURSIVE normalize_loop(_, _)
normalize_loop(keys, probs) ==
    IF keys = <<>> THEN [probabilities |-> probs, error |-> "none"]
    ELSE
      LET name == Head(keys)
          genes_probs_sum == genes_sum(probs, name)
          trait_probs_sum == trait_sum(probs, name)
          gene == [count \in {2, 1, 0} |->
                      Div(probs[name].gene[count], genes_probs_sum)]
          trait == (TRUE  :> Div(probs[name].trait[TRUE], trait_probs_sum) @@
                    FALSE :> Div(probs[name].trait[FALSE], trait_probs_sum))
      IN  IF genes_probs_sum = Zero
          THEN [probabilities |-> probs, error |-> "ZeroDivisionError"]
          ELSE IF trait_probs_sum = Zero
          THEN [probabilities |-> [probs EXCEPT ![name].gene = gene],
                error |-> "ZeroDivisionError"]
          ELSE normalize_loop(Tail(keys),
                   [probs EXCEPT ![name] = [gene |-> gene, trait |-> trait]])

normalize(probs) == normalize_loop(ListOf(DOMAIN probs), probs)

---------------------------------------------------------------------------
\* Population files

Person(x) == NameSeq[x]
Blank == [name |-> "", mother |-> "", father |-> "", trait |-> ""]

\* n people without parents, with the trait fields ev
RootsFile(n, ev) ==
    [x \in 1..n |-> [Blank EXCEPT !.name = Person(x), !.trait = ev[x]]]

\* two people without parents; every later person is the child of the two
\* people before
FamilyFile(n, ev) ==
    [x \in 1..n |->
        IF x <= 2 THEN [Blank EXCEPT !.name = Person(x), !.trait = ev[x]]
        ELSE [name |-> Person(x), mother |-> Person(x - 2),
              father |-> Person(x - 1), trait |-> ev[x]]]

\* files that break the rule "mother, father must both be blank, or both be
\* valid names in the CSV": the last person gets the parent fields m, f
BrokenFile(n, m, f) ==
    [x \in 1..n |->
        IF x < n THEN [Blank EXCEPT !.name = Person(x)]
        ELSE [name |-> Person(x), mother |-> m, father |-> f, trait |-> ""]]

TraitFields(n) == [1..n -> {"", "0", "1"}]

WellFormedFiles ==
    {RootsFile(n, ev) : <<n, ev>> \in
        UNION {{<<m, e>> : e \in TraitFields(m)} : m \in 0..MaxPeople}}
    \cup
    {FamilyFile(n, ev) : <<n, ev>> \in
        UNION {{<<m, e>> : e \in TraitFields(m)} : m \in 3..MaxPeople}}

BrokenFiles ==
    {BrokenFile(n, par[1], par[2]) : <<n, par>> \in
        (2..MaxPeople) \X {<<"A", "">>, <<"", "A">>,
                           <<Stranger, "A">>, <<"A", Stranger>>,
                           <<Stranger, Stranger>>}}

Files == WellFormedFiles \cup BrokenFiles

---------------------------------------------------------------------------
\* main

\* no search is under way
NoSearch ==
    /\ csv = <<>> /\ people_db = <<>> /\ movies_db = <<>>
    /\ source = None /\ target = None
    /\ fifo = <<>> /\ fifo_set = {} /\ visited = <<>>
    /\ curr_id = None /\ neighbors = {} /\ result = <<>>

Idle ==
    /\ people = <<>> /\ probabilities = <<>> /\ names = {}
    /\ ht_list = <<>> /\ i = 1 /\ have_trait = {}
    /\ og_list = <<>> /\ j = 1 /\ one_gene = {}
    /\ tg_list = <<>> /\ k = 1 /\ two_genes = {}
    /\ p = Zero /\ error = "none"
    /\ calls = EmptyBag /\ total = Zero /\ normalized = 0

Init ==
    /\ file \in Files
    /\ set_order \in SetOrders
    /\ NoSearch
    /\ pc = "load"
    /\ Idle

\* the test "is not None" left out
fails_evidence_unguarded(population, trait_set) ==
    \E person \in DOMAIN population :
        population[person].trait #
            (IF person \in trait_set THEN "True" ELSE "False")

\* the known trait of one person held against everybody
fails_evidence_of_anybody(population, trait_set) ==
    \E person \in DOMAIN population :
        /\ population[person].trait # None
        /\ \E other \in DOMAIN population :
              population[person].trait #
                  (IF other \in trait_set THEN "True" ELSE "False")

fails_evidence(population, trait_set) ==
    \E person \in DOMAIN population :
        /\ population[person].trait # None
        /\ population[person].trait #
              (IF person \in trait_set THEN "True" ELSE "False")

\* lines 32-45
Load ==
    /\ pc = "load"
    /\ people' = load_data(file)
    /\ probabilities' = ZeroProbabilities(people')
    /\ names' = DOMAIN people'
    /\ ht_list' = powerset(names')
    /\ i' = 1
    /\ pc' = "for_have_trait"
    /\ UNCHANGED <<search, file, set_order, have_trait, og_list, j, one_gene, tg_list, k,
                   two_genes, p, error, history>>

\* break where the program has continue
HaveTraitBreak ==
    /\ pc = "for_have_trait"
    /\ i <= Len(ht_list)
    /\ fails_evidence(people, ht_list[i])
    /\ have_trait' = ht_list[i]
    /\ i' = i + 1
    /\ pc' = "normalize"
    /\ UNCHANGED <<search, file, set_order, people, probabilities, names, ht_list, og_list, j,
                   one_gene, tg_list, k, two_genes, p, error, history>>

\* lines 45-54: the next have_trait violates known information
HaveTraitContinue ==
    /\ pc = "for_have_trait"
    /\ i <= Len(ht_list)
    /\ fails_evidence(people, ht_list[i])
    /\ have_trait' = ht_list[i]
    /\ i' = i + 1
    /\ UNCHANGED <<search, file, set_order, people, probabilities, names, ht_list, og_list, j,
                   one_gene, tg_list, k, two_genes, p, pc, error, history>>

\* lines 45-57: the next have_trait agrees with it
HaveTraitEnter ==
    /\ pc = "for_have_trait"
    /\ i <= Len(ht_list)
    /\ ~fails_evidence(people, ht_list[i])
    /\ have_trait' = ht_list[i]
    /\ i' = i + 1
    /\ og_list' = powerset(names)
    /\ j' = 1
    /\ pc' = "for_one_gene"
    /\ UNCHANGED <<search, file, set_order, people, probabilities, names, ht_list, one_gene,
                   tg_list, k, two_genes, p, error, history>>

\* line 45: the loop is exhausted
HaveTraitExhausted ==
    /\ pc = "for_have_trait"
    /\ i > Len(ht_list)
    /\ pc' = "normalize"
    /\ UNCHANGED <<search, file, set_order, people, probabilities, names, loops, p, error, history>>

\* lines 57-58
OneGeneNext ==
    /\ pc = "for_one_gene"
    /\ j <= Len(og_list)
    /\ one_gene' = og_list[j]
    /\ j' = j + 1
    /\ tg_list' = powerset(names \ one_gene')
    /\ k' = 1
    /\ pc' = "for_two_genes"
    /\ UNCHANGED <<search, file, set_order, people, probabilities, names, ht_list, i, have_trait,
                   og_list, two_genes, p, error, history>>

OneGeneExhausted ==
    /\ pc = "for_one_gene"
    /\ j > Len(og_list)
    /\ pc' = "for_have_trait"
    /\ UNCHANGED <<search, file, set_order, people, probabilities, names, loops, p, error, history>>

\* lines 58-62
TwoGenesNext ==
    /\ pc = "for_two_genes"
    /\ k <= Len(tg_list)
    /\ two_genes' = tg_list[k]
    /\ k' = k + 1
    /\ p' = joint_probability(people, one_gene, two_genes', have_trait)
    /\ probabilities' = update(probabilities, one_gene, two_genes', have_trait, p')
    /\ calls' = calls (+) SetToBag({<<one_gene, two_genes', have_trait>>})
    /\ total' = BigAdd(total, p')
    /\ UNCHANGED <<search, file, set_order, people, names, ht_list, i, have_trait, og_list, j,
                   one_gene, tg_list, pc, error, normalized>>

TwoGenesExhausted ==
    /\ pc = "for_two_genes"
    /\ k > Len(tg_list)
    /\ pc' = "for_one_gene"
    /\ UNCHANGED <<search, file, set_order, people, probabilities, names, loops, p, error, history>>

\* line 65
Normalize ==
    /\ pc = "normalize"
    /\ LET r == normalize(probabilities)
       IN  /\ probabilities' = r.probabilities
           /\ error' = r.error
           /\ pc' = IF r.error = "none" THEN "done" ELSE "raised"
    /\ normalized' = normalized + 1
    /\ UNCHANGED <<search, file, set_order, people, names, loops, p, calls, total>>

Next ==
    \/ Load
    \/ HaveTraitContinue
    \/ HaveTraitEnter
    \/ HaveTraitExhausted
    \/ OneGeneNext
    \/ OneGeneExhausted
    \/ TwoGenesNext
    \/ TwoGenesExhausted
    \/ Normalize

Spec == Init /\ [][Next]_vars

---------------------------------------------------------------------------
\* Properties of main

RECURSIVE Pow(_, _)
Pow(b, e) == IF e = 0 THEN 1 ELSE b * Pow(b, e - 1)

Loaded == pc # "load"
Enumerated == pc \in {"normalize", "done", "raised"}

\* every parent field of the population is blank or names a person, and
\* nobody has one parent only
WellFormed(population) ==
    \A person \in DOMAIN population :
        \/ population[person].mother = None /\ population[person].father = None
        \/ /\ population[person].mother \in DOMAIN population
           /\ population[person].father \in DOMAIN population

Known == {person \in DOMAIN people : people[person].trait # None}
Unknown == DOMAIN people \ Known

\* the trait set agrees with everything known
Agrees(trait_set) ==
    \A person \in Known :
        (person \in trait_set) <=> (people[person].trait = "True")

TraitSetsCalled == {t[3] : t \in BagToSet(calls)}

\* joint_probability and update have just been called with one_gene,
\* two_genes and have_trait
Evaluated == pc = "for_two_genes" /\ k > 1

\* C1: joint_probability and update are called with a trait set only if it
\* agrees with every known trait; once the enumeration is over, every subset
\* of the names that agrees with the evidence has been processed exactly
\* once, which makes 2^m trait sets, m the number of people of unknown trait.
C1_EvidenceFilter ==
    /\ Evaluated => have_trait \subseteq names /\ Agrees(have_trait)
    /\ Enumerated =>
          /\ TraitSetsCalled = {h \in SUBSET names : Agrees(h)}
          /\ \A h \in TraitSetsCalled : CopiesIn(<<{}, {}, h>>, calls) = 1
          /\ Cardinality(TraitSetsCalled) = Pow(2, Cardinality(Unknown))

C1_Witness ==
    /\ pc = "done"
    /\ Known # {} /\ Unknown # {}
    /\ \E person \in Known : people[person].trait = "True"
    /\ \E person \in Known : people[person].trait = "False"
    /\ Cardinality(TraitSetsCalled) = 2

\* the gene sets of the function g from people to copy counts
Ones(g) == {person \in DOMAIN g : g[person] = 1}
Twos(g) == {person \in DOMAIN g : g[person] = 2}

\* the gene loops of every trait set called have run to their end
BetweenTraitSets == Loaded /\ pc \notin {"for_one_gene", "for_two_genes"}

\* C2: the loops over one_gene and two_genes visit no pair twice, every
\* visited pair is disjoint, and once they have run to their end they have
\* visited every function from people to {0, 1, 2} exactly once: 3^n pairs.
C2_Configurations ==
    /\ Evaluated =>
          /\ CopiesIn(<<one_gene, two_genes, have_trait>>, calls) = 1
          /\ one_gene \cap two_genes = {}
          /\ one_gene \cup two_genes \subseteq names
    /\ BetweenTraitSets =>
          /\ \A h \in TraitSetsCalled :
                \A g \in [names -> {0, 1, 2}] :
                    CopiesIn(<<Ones(g), Twos(g), h>>, calls) = 1
          /\ BagCardinality(calls)
                = Cardinality(TraitSetsCalled) * Pow(3, Cardinality(names))

C2_Witness ==
    /\ pc = "for_have_trait"
    /\ Cardinality(names) = MaxPeople
    /\ Cardinality(TraitSetsCalled) = 2
    /\ \E t \in BagToSet(calls) : t[1] # {} /\ t[2] # {}

\* The product the evaluator is to return, from its description.
PassProbability(copies) ==
    CASE copies = 2 -> 100 - PROBS.mutation
      [] copies = 1 -> 50
      [] copies = 0 -> PROBS.mutation

Copies(person, one, two) ==
    IF person \in two THEN 2 ELSE IF person \in one THEN 1 ELSE 0

\* in ten-thousandths
HiddenFactor(person, one, two) ==
    LET m == PassProbability(Copies(people[person].mother, one, two))
        f == PassProbability(Copies(people[person].father, one, two))
        c == Copies(person, one, two)
    IN  IF people[person].mother = None /\ people[person].father = None
        THEN 100 * PROBS.gene[c]
        ELSE CASE c = 2 -> m * f
               [] c = 1 -> m * (100 - f) + f * (100 - m)
               [] c = 0 -> (100 - m) * (100 - f)

\* in hundredths
EmissionFactor(person, one, two, trait_set) ==
    PROBS.trait[Copies(person, one, two)][(person \in trait_set)]

RECURSIVE Product(_, _, _, _)
Product(persons, one, two, trait_set) ==
    IF persons = {} THEN BigOf(1)
    ELSE LET person == CHOOSE x \in persons : TRUE
         IN  BigMul(BigMul(Product(persons \ {person}, one, two, trait_set),
                           EmissionFactor(person, one, two, trait_set)),
                    HiddenFactor(person, one, two))

\* C3: on a population in which everybody has no parents or two parents of
\* the population, joint_probability returns the product over every person
\* of the hidden factor and the emission factor.
C3_JointProbability ==
    (Evaluated /\ WellFormed(people)) =>
        p = Product(DOMAIN people, one_gene, two_genes, have_trait)

C3_Witness ==
    /\ Evaluated
    /\ WellFormed(people)
    /\ \E person \in names :
          /\ people[person].mother # None
          /\ person \in one_gene
          /\ people[person].mother \in two_genes
          /\ people[person].father \notin one_gene \cup two_genes
          /\ person \in have_trait

\* C4: without evidence, the joint probabilities of every enumerated pair of
\* a gene assignment and a trait assignment of a well-formed population sum
\* to 1.
C4_SumsToOne ==
    (Enumerated /\ WellFormed(people) /\ Known = {}) =>
        total = Unit(Cardinality(names))

C4_Witness ==
    /\ pc = "done"
    /\ Known = {}
    /\ \E person \in names : people[person].mother \in names
    /\ WellFormed(people)
    /\ BagCardinality(calls) = Pow(2, MaxPeople) * Pow(3, MaxPeople)

\* every call the enumeration is to make
Expected ==
    {<<one, two, h>> : <<one, two, h>> \in
        UNION {UNION {{<<o, t, a>> : t \in SUBSET (names \ o)} : o \in SUBSET names} :
               a \in {x \in SUBSET names : Agrees(x)}}}

\* C6: normalize runs exactly once in a run that ends, only after update
\* has been applied for every pair of a gene assignment and a trait
\* assignment that agrees with the evidence, and the accumulator is not
\* updated once normalize has run.
C6_NormalizeOnce ==
    /\ [](/\ normalized <= 1
          /\ normalized = 0 <=> pc \notin {"done", "raised"}
          /\ pc \in {"normalize", "done", "raised"} =>
                /\ BagToSet(calls) = Expected
                /\ \A t \in Expected : CopiesIn(t, calls) = 1)
    /\ [][normalized >= 1 => calls' = calls /\ probabilities' = probabilities]_vars

C6_Witness ==
    /\ pc = "done"
    /\ normalized = 1
    /\ Known # {}
    /\ Cardinality(names) = MaxPeople
    /\ BagCardinality(calls) = 2 * Pow(3, MaxPeople)

\* C8: a population in which somebody has one parent only, or a parent that
\* is no person of the population, is rejected before any joint probability
\* is computed.
C8_Rejected ==
    (Loaded /\ ~WellFormed(people)) => (calls = EmptyBag /\ pc # "done")

\* the scenario: the single person A, without parents, of unknown trait
OnlyA ==
    names = {"A"} /\ people["A"].mother = None /\ people["A"].trait = None

\* the weight of A having the trait is n ten-thousandths, accumulated and
\* normalized
TraitWeightOfA(n) ==
    /\ pc = "normalize" =>
          probabilities["A"].trait[TRUE] = BigMul(BigOf(n), 100)
    /\ pc = "done" =>
          /\ probabilities["A"].trait[TRUE].den # Zero
          /\ BigMul(probabilities["A"].trait[TRUE].num, Base)
                = BigMul(probabilities["A"].trait[TRUE].den, n)

\* C10 as stated: for the single person A without parents and of unknown
\* trait, the accumulated (and normalized) weight of A having the trait is
\* 0.0296.
C10_AsStated == OnlyA => TraitWeightOfA(296)

\* C10: for the single person A without parents and of unknown trait, the
\* accumulated (and normalized) weight of A having the trait is
\* 0.96*0.01 + 0.03*0.56 + 0.01*0.65, which is 0.0329.
C10_Scenario == OnlyA => TraitWeightOfA(96 * 1 + 3 * 56 + 1 * 65)

C10_Witness ==
    /\ OnlyA
    /\ pc = "done"
    /\ BagCardinality(calls) = 6

\* the two people A and B, both without parents
OnlyAAndB ==
    /\ names = {"A", "B"}
    /\ \A person \in names :
          people[person].mother = None /\ people[person].father = None

\* the weight of B alone having c copies and the trait t, in ten-thousandths
WeightOfB(c, t) ==
    IF people["B"].trait = None \/ people["B"].trait = (IF t THEN "True" ELSE "False")
    THEN PROBS.gene[c] * PROBS.trait[c][t]
    ELSE 0

AllWeightOfB ==
    WeightOfB(0, TRUE) + WeightOfB(1, TRUE) + WeightOfB(2, TRUE)
    + WeightOfB(0, FALSE) + WeightOfB(1, FALSE) + WeightOfB(2, FALSE)

\* the quotient q is the fraction w / AllWeightOfB
IsShareOfB(q, w) ==
    /\ q.den # Zero
    /\ BigMul(q.num, AllWeightOfB) = BigMul(q.den, w)

\* C11: for two people A and B without parents, the normalized gene and trait
\* marginals of B are the same whether the trait of A is unknown, True or
\* False: in each of the three runs they are the marginals B has alone.
C11_Independence ==
    (pc = "done" /\ OnlyAAndB) =>
        /\ \A c \in {0, 1, 2} :
              IsShareOfB(probabilities["B"].gene[c],
                         WeightOfB(c, TRUE) + WeightOfB(c, FALSE))
        /\ \A t \in BOOLEAN :
              IsShareOfB(probabilities["B"].trait[t],
                         WeightOfB(0, t) + WeightOfB(1, t) + WeightOfB(2, t))

C11_Witness ==
    /\ pc = "done"
    /\ OnlyAAndB
    /\ people["A"].trait = "True"
    /\ people["B"].trait = None
    /\ probabilities["B"].trait[TRUE].num # Zero

\* C13: a call of update adds p, for every person, to the gene entry of the
\* person's copy count and to the trait entry of the person's trait, leaves
\* every other entry as it was and changes neither the population nor the
\* sets passed in; no other step of the enumeration changes the accumulator.
C13_UpdateFrame ==
    [][IF calls' # calls
       THEN /\ calls' = calls (+) SetToBag({<<one_gene', two_genes', have_trait'>>})
            /\ \A person \in names :
                  /\ \A c \in {0, 1, 2} :
                        probabilities'[person].gene[c] =
                            IF c = Copies(person, one_gene', two_genes')
                            THEN BigAdd(probabilities[person].gene[c], p')
                            ELSE probabilities[person].gene[c]
                  /\ \A t \in BOOLEAN :
                        probabilities'[person].trait[t] =
                            IF t = (person \in have_trait')
                            THEN BigAdd(probabilities[person].trait[t], p')
                            ELSE probabilities[person].trait[t]
            /\ DOMAIN probabilities' = names
            /\ UNCHANGED <<file, people, names, one_gene, have_trait, tg_list>>
            /\ two_genes' = tg_list[k]
       ELSE (Loaded /\ pc' \notin {"done", "raised"}) =>
                probabilities' = probabilities]_vars

C13_Witness ==
    /\ Evaluated
    /\ Cardinality(names) = MaxPeople
    /\ one_gene # {} /\ two_genes # {} /\ have_trait # {}
    /\ one_gene \cup two_genes # names
    /\ \E person \in names :
          /\ probabilities[person].gene[0] # Zero
          /\ probabilities[person].gene[1] # Zero
          /\ probabilities[person].gene[2] # Zero

\* C14: from the creation of the accumulator to the call of normalize, the
\* three gene weights of every person and the two trait weights of every
\* person sum to the same value: the sum of every joint probability added.
C14_EqualSums ==
    (Loaded /\ pc \notin {"done", "raised"}) =>
        \A person \in names :
            /\ BigAdd(probabilities[person].gene[0],
                      BigAdd(probabilities[person].gene[1],
                             probabilities[person].gene[2])) = total
            /\ BigAdd(probabilities[person].trait[TRUE],
                      probabilities[person].trait[FALSE]) = total

C14_Witness ==
    /\ Evaluated
    /\ Known # {} /\ Unknown # {}
    /\ Cardinality(names) = MaxPeople
    /\ BagCardinality(calls) > Pow(3, MaxPeople)
    /\ \E person \in names :
          probabilities[person].trait[TRUE] # Zero
          /\ probabilities[person].trait[FALSE] # Zero

---------------------------------------------------------------------------
\* joint_probability and normalize called on their own, with any arguments

NoEvidence(n) == [x \in 1..n |-> ""]

UnitPopulations ==
    {load_data(RootsFile(n, NoEvidence(n))) : n \in 1..UnitPeople}
    \cup {load_data(FamilyFile(UnitPeople + 1, NoEvidence(UnitPeople + 1)))}

Weights == {BigOf(w) : w \in 0..MaxWeight}

\* accumulators of A alone, and of A and B
AnyEntry ==
    {[gene  |-> (2 :> g2 @@ 1 :> g1 @@ 0 :> g0),
      trait |-> (TRUE :> t1 @@ FALSE :> t0)] :
        <<g2, g1, g0, t1, t0>> \in
            Weights \X Weights \X Weights \X Weights \X Weights}

FlatEntry ==
    {[gene  |-> (2 :> g @@ 1 :> g @@ 0 :> g),
      trait |-> (TRUE :> t @@ FALSE :> t)] : <<g, t>> \in Weights \X Weights}

UnitAccumulators ==
    {("A" :> a) : a \in AnyEntry}
    \cup {("A" :> a @@ "B" :> b) : <<a, b>> \in AnyEntry \X FlatEntry}

UnitInit ==
    /\ file = <<>>
    /\ NoSearch
    /\ set_order = "ascending"
    /\ ht_list = <<>> /\ i = 1
    /\ og_list = <<>> /\ j = 1
    /\ tg_list = <<>> /\ k = 1
    /\ p = Zero /\ error = "none"
    /\ calls = EmptyBag /\ total = Zero /\ normalized = 0
    /\ \/ /\ pc = "call_joint_probability"
          /\ people \in UnitPopulations
          /\ names = DOMAIN people
          /\ probabilities = ZeroProbabilities(people)
          /\ one_gene \in SUBSET (names \cup {Stranger})
          /\ two_genes \in SUBSET (names \cup {Stranger})
          /\ have_trait \in SUBSET (names \cup {Stranger})
       \/ /\ pc = "call_normalize"
          /\ probabilities \in UnitAccumulators
          /\ names = DOMAIN probabilities
          /\ people = load_data(RootsFile(Cardinality(names),
                                          NoEvidence(Cardinality(names))))
          /\ one_gene = {} /\ two_genes = {} /\ have_trait = {}

\* lines 123-175
CallJointProbability ==
    /\ pc = "call_joint_probability"
    /\ p' = joint_probability(people, one_gene, two_genes, have_trait)
    /\ pc' = "joint_probability_returned"
    /\ UNCHANGED <<search, file, set_order, people, probabilities, names, loops, error, history>>

\* lines 193-209
CallNormalize ==
    /\ pc = "call_normalize"
    /\ LET r == normalize(probabilities)
       IN  /\ probabilities' = r.probabilities
           /\ error' = r.error
           /\ pc' = IF r.error = "none" THEN "normalize_returned"
                    ELSE "normalize_raised"
    /\ normalized' = normalized + 1
    /\ UNCHANGED <<search, file, set_order, people, names, loops, p, calls, total>>

UnitNext ==
    \/ CallJointProbability
    \/ CallNormalize

SpecUnit == UnitInit /\ [][UnitNext]_vars

\* a weight of a direct call, as an integer
Small(w) == w[1]

\* the quotients of the distribution d sum to 1
SumToOne(d, keys) ==
    /\ \A x \in keys : Small(d[x].den) # 0
    /\ \/ /\ Cardinality(keys) = 2
          /\ \E x, y \in keys :
                /\ x # y
                /\ Small(d[x].num) * Small(d[y].den)
                   + Small(d[y].num) * Small(d[x].den)
                   = Small(d[x].den) * Small(d[y].den)
       \/ /\ Cardinality(keys) = 3
          /\ \E x, y, z \in keys :
                /\ x # y /\ y # z /\ x # z
                /\ Small(d[x].num) * Small(d[y].den) * Small(d[z].den)
                   + Small(d[y].num) * Small(d[x].den) * Small(d[z].den)
                   + Small(d[z].num) * Small(d[x].den) * Small(d[y].den)
                   = Small(d[x].den) * Small(d[y].den) * Small(d[z].den)

\* any two quotients of d are in the ratio of the weights of w
RatiosKept(w, d, keys) ==
    \A x, y \in keys :
        Small(d[x].num) * Small(d[y].den) * Small(w[y])
            = Small(d[y].num) * Small(d[x].den) * Small(w[x])

\* C5: when normalize returns, the three gene weights of every person sum
\* to 1 and so do the two trait weights, whatever the other distribution
\* held, and the entries of each distribution are in the ratios they were in
\* before.
C5_Normalized ==
    [][(pc = "call_normalize" /\ pc' = "normalize_returned") =>
          \A name \in DOMAIN probabilities :
              /\ SumToOne(probabilities'[name].gene, {2, 1, 0})
              /\ SumToOne(probabilities'[name].trait, BOOLEAN)
              /\ RatiosKept(probabilities[name].gene,
                            probabilities'[name].gene, {2, 1, 0})
              /\ RatiosKept(probabilities[name].trait,
                            probabilities'[name].trait, BOOLEAN)]_vars

C5_Witness ==
    /\ pc = "normalize_returned"
    /\ names = {"A", "B"}
    /\ probabilities["A"].gene[1].den # probabilities["A"].trait[TRUE].den
    /\ probabilities["A"].gene[2].num = BigOf(MaxWeight)
    /\ probabilities["A"].gene[0].num = Zero
    /\ probabilities["B"].trait[TRUE].num # Zero

\* somebody's gene weights, or trait weights, are all zero
SomeZero(probs) ==
    \E name \in DOMAIN probs :
        \/ \A c \in {2, 1, 0} : probs[name].gene[c] = Zero
        \/ \A b \in BOOLEAN : probs[name].trait[b] = Zero

\* C7: normalize applied to an accumulator in which somebody's gene weights
\* or trait weights are all zero ends in an evidence-inconsistency error,
\* not in a raw division by zero, and leaves no partial marginals behind.
C7_EvidenceInconsistency ==
    [][(pc = "call_normalize" /\ SomeZero(probabilities)) =>
          /\ error' = "EvidenceInconsistencyError"
          /\ probabilities' = probabilities]_vars

\* a name of the configuration is no person of the population
Malformed ==
    ~(one_gene \cup two_genes \cup have_trait \subseteq DOMAIN people)

\* C9: joint_probability called with a gene set or a trait set that names
\* somebody outside the population signals an invalid-configuration error
\* and returns no probability.
C9_InvalidConfiguration ==
    [][(pc = "call_joint_probability" /\ Malformed) =>
          /\ error' = "InvalidConfigurationError"
          /\ pc' # "joint_probability_returned"]_vars

---------------------------------------------------------------------------
\* src/search/degrees.py

\* The largest number of movies of movies.csv.
MaxMovies == 5

ActorSeq == <<"1", "2", "3", "4", "5">>
Actors == {ActorSeq[x] : x \in 1..Len(ActorSeq)}

\* the casts a movie can have: two stars
Casts ==
    {{ActorSeq[x], ActorSeq[y]} : <<x, y>> \in
        {xy \in (1..Len(ActorSeq)) \X (1..Len(ActorSeq)) : xy[1] < xy[2]}}

\* the id of the movie of a cast
MovieId(cast) ==
    LET x == CHOOSE x \in 1..Len(ActorSeq) :
                 ActorSeq[x] \in cast /\ \A y \in 1..x - 1 : ActorSeq[y] \notin cast
        z == CHOOSE z \in 1..Len(ActorSeq) :
                 ActorSeq[z] \in cast /\ \A y \in z + 1..Len(ActorSeq) : ActorSeq[y] \notin cast
    IN  "m" \o ActorSeq[x] \o ActorSeq[z]

\* a movie id of stars.csv that movies.csv lacks
LostMovie == "m0"

\* the three files: every actor, one movie for each cast, a stars row for
\* each star of each movie and, when lost, a row of actor 2 in LostMovie
Directory(casts, lost) ==
    [people |-> Actors,
     movies |-> {MovieId(cast) : cast \in casts},
     stars  |-> UNION {{<<a, MovieId(cast)>> : a \in cast} : cast \in casts}
                \cup (IF lost THEN {<<"2", LostMovie>>} ELSE {})]

Directories ==
    {Directory(casts, lost) : <<casts, lost>> \in
        {c \in SUBSET Casts : Cardinality(c) <= MaxMovies} \X BOOLEAN}

\* load_data: a stars row <<person_id, movie_id>> is added to the movies of
\* the person and then to the stars of the movie; a KeyError of either
\* statement ends the row.  The sets do not depend on the order of the rows.
degrees_load_data(files) ==
    [people |->
        [id \in files.people |->
            [movies |-> {row[2] : row \in {r \in files.stars : r[1] = id}}]],
     movies |->
        [id \in files.movies |->
            [stars |-> {row[1] : row \in
                {r \in files.stars : r[2] = id /\ r[1] \in files.people}}]]]

\* raises KeyError when a movie of the person is no key of movies
neighbors_for_person(person_id) ==
    UNION {{<<movie_id, star_id>> : star_id \in movies_db[movie_id].stars} :
           movie_id \in people_db[person_id].movies}

neighbors_KeyError(person_id) ==
    \E movie_id \in people_db[person_id].movies : movie_id \notin DOMAIN movies_db

\* lines 127-132: the list built from the target back to the source
RECURSIVE path_back(_)
path_back(id) ==
    IF id = source THEN <<>>
    ELSE <<<<visited[id][1], id>>>> \o path_back(visited[id][2])

\* The searches start from actor 1; the directories range over every way
\* the other actors are connected to it, and the target over every actor.
Sources == {"1"}

\* the data loaded, the two people chosen
SearchInit ==
    /\ file = <<>> /\ set_order = "ascending" /\ Idle
    /\ csv \in Directories
    /\ people_db = degrees_load_data(csv).people
    /\ movies_db = degrees_load_data(csv).movies
    /\ source \in Sources
    /\ target \in DOMAIN people_db
    /\ fifo = <<>> /\ fifo_set = {} /\ visited = <<>>
    /\ curr_id = None /\ neighbors = {} /\ result = <<>>
    /\ pc = "shortest_path"

\* lines 98-99
ReturnEmpty ==
    /\ pc = "shortest_path"
    /\ source = target
    /\ result' = <<>>
    /\ pc' = "returned_list"
    /\ UNCHANGED <<heredity, error, csv, people_db, movies_db, source, target,
                   fifo, fifo_set, visited, curr_id, neighbors>>

\* lines 101-107
Start ==
    /\ pc = "shortest_path"
    /\ source # target
    /\ fifo' = <<<<source, None, None>>>>
    /\ fifo_set' = {source}
    /\ visited' = <<>>
    /\ pc' = "while"
    /\ UNCHANGED <<heredity, error, csv, people_db, movies_db, source, target,
                   curr_id, neighbors, result>>

\* lines 109-117
Pop ==
    /\ pc = "while"
    /\ Len(fifo) > 0
    /\ curr_id' = Head(fifo)[1]
    /\ fifo' = Tail(fifo)
    /\ visited' = (Head(fifo)[1] :> <<Head(fifo)[2], Head(fifo)[3]>>) @@ visited
    /\ IF neighbors_KeyError(curr_id')
       THEN /\ error' = "KeyError"
            /\ pc' = "raised"
            /\ UNCHANGED neighbors
       ELSE /\ neighbors' = neighbors_for_person(curr_id')
            /\ pc' = "for_neighbors"
            /\ UNCHANGED error
    /\ UNCHANGED <<heredity, csv, people_db, movies_db, source, target,
                   fifo_set, result>>

\* lines 109, 138
ReturnNone ==
    /\ pc = "while"
    /\ Len(fifo) = 0
    /\ pc' = "returned_None"
    /\ UNCHANGED <<heredity, error, search>>

\* lines 117-122
NeighborContinue ==
    /\ pc = "for_neighbors"
    /\ \E n \in neighbors :
          /\ n[2] \in DOMAIN visited \/ n[2] \in fifo_set
          /\ neighbors' = neighbors \ {n}
    /\ UNCHANGED <<heredity, pc, error, csv, people_db, movies_db, source,
                   target, fifo, fifo_set, visited, curr_id, result>>

\* lines 117-132
NeighborIsTarget ==
    /\ pc = "for_neighbors"
    /\ \E n \in neighbors :
          /\ ~(n[2] \in DOMAIN visited \/ n[2] \in fifo_set)
          /\ n[2] = target
          /\ result' = Reversed(<<n>> \o path_back(curr_id))
    /\ pc' = "returned_list"
    /\ UNCHANGED <<heredity, error, csv, people_db, movies_db, source, target,
                   fifo, fifo_set, visited, curr_id, neighbors>>

\* lines 117-136
NeighborPush ==
    /\ pc = "for_neighbors"
    /\ \E n \in neighbors :
          /\ ~(n[2] \in DOMAIN visited \/ n[2] \in fifo_set)
          /\ n[2] # target
          /\ fifo' = Append(fifo, <<n[2], n[1], curr_id>>)
          /\ fifo_set' = fifo_set \cup {n[2]}
          /\ neighbors' = neighbors \ {n}
    /\ UNCHANGED <<heredity, pc, error, csv, people_db, movies_db, source,
                   target, visited, curr_id, result>>

\* line 117: the loop is exhausted
NeighborsExhausted ==
    /\ pc = "for_neighbors"
    /\ neighbors = {}
    /\ pc' = "while"
    /\ UNCHANGED <<heredity, error, search>>

SearchNext ==
    \/ ReturnEmpty
    \/ Start
    \/ Pop
    \/ ReturnNone
    \/ NeighborContinue
    \/ NeighborIsTarget
    \/ NeighborPush
    \/ NeighborsExhausted

\* the program runs on until shortest_path returns or raises
SpecSearch == SearchInit /\ [][SearchNext]_vars /\ WF_vars(SearchNext)

---------------------------------------------------------------------------
\* shortest_path against the files it was loaded from

\* stars.csv lists both people in the movie
Together(movie_id, a, b) ==
    <<a, movie_id>> \in csv.stars /\ <<b, movie_id>> \in csv.stars

\* the people at most n movies away from the source
RECURSIVE Within(_)
Within(n) ==
    IF n = 0 THEN {source}
    ELSE Within(n - 1) \cup
         {b \in csv.people : \E a \in Within(n - 1) :
              \E row \in csv.stars : Together(row[2], a, b)}

Reachable == target \in Within(Cardinality(csv.people))

Distance == CHOOSE n \in 0..Cardinality(csv.people) :
                target \in Within(n) /\ \A less \in 0..n - 1 : target \notin Within(less)

Previous(path, x) == IF x = 1 THEN source ELSE path[x - 1][2]

IsPath(path) ==
    /\ Len(path) > 0
    /\ path[Len(path)][2] = target
    /\ \A x \in 1..Len(path) : Together(path[x][1], Previous(path, x), path[x][2])

Returned == pc \in {"returned_list", "returned_None"}

Contract ==
    /\ pc = "returned_list" =>
          IF source = target THEN result = <<>>
          ELSE IsPath(result) /\ Len(result) = Distance
    /\ pc = "returned_None" => source # target /\ ~Reachable

\* every movie of stars.csv is a movie of movies.csv
NothingLost == \A row \in csv.stars : row[2] \in csv.movies

\* C12: shortest_path returns [] when source == target; otherwise, when the
\* target is reachable, a list of (movie_id, person_id) pairs that ends at the
\* target, each person starring in the paired movie together with the previous
\* person, of the minimum length; it returns None if and only if the target is
\* not reachable; and the search terminates, by returning, on every graph.
C12_ShortestPath == [](Contract) /\ <>(Returned)

\* what holds of the directories that lost no movie
ShortestPathIfNothingLost ==
    [](NothingLost => Contract) /\ (NothingLost => <>(Returned))

\* a search that had a longer way to the target than the one it returned
LongWayRound ==
    /\ NothingLost
    /\ pc = "returned_list"
    /\ Len(result) = 2
    /\ \E a, b, c \in csv.people \ {source, target} :
          /\ Cardinality({a, b, c}) = 3
          /\ result[1][2] = a
          /\ \E row \in csv.stars : Together(row[2], source, b)
          /\ \E row \in csv.stars : Together(row[2], b, c)
          /\ \E row \in csv.stars : Together(row[2], c, target)

\* a search that ends on the movie that was lost
LostMovieRaised == pc = "raised" /\ error = "KeyError" /\ Reachable

====
